---- MODULE Spec2Model ----
(***************************************************************************)
(* A model of pytorch_release_generator: generate_release_notes.py (title  *)
(* parsing, batching, the streamed model call, the response grammar,       *)
(* aggregation, rendering, reconciliation, and main's batch loop) and      *)
(* remove_redundant_tags.py (clean_tags).                                  *)
(*                                                                         *)
(* Text is a sequence of one-character strings, so that every regular      *)
(* expression, strip and slice of the source is computed character by      *)
(* character.  A file is a record [exists, text].                          *)
(***************************************************************************)
EXTENDS Integers, Sequences, FiniteSets, TLC

VARIABLES
    pc,               \* position of the running procedure
    input_lines,      \* the lines of the input file (main, read_pr_list)
    pr_entries,       \* read_pr_list's result / prepare_batches' argument
    batch_size,       \* prepare_batches' batch_size argument
    batches,          \* prepare_batches' result
    batch_i,          \* main's loop index i (1-based), 0 before the loop
    pr_data_list,     \* the PR records fetched for the current batch
    ollama_response,  \* send_to_ollama's return value for the current batch
    parse_lines,      \* parse_ollama_response: the lines of the response
    parse_pos,        \* parse_ollama_response: how many lines were scanned
    current_category, \* parse_ollama_response: current_category
    categorized,      \* parse_ollama_response's categories / main's categorized
    categories,       \* main's cumulative categories
    output_md,        \* the primary output file
    output_url_md,    \* the URL output file
    log_file,         \* the raw-response log file
    unprocessed_file, \* the unprocessed-PR file
    clean_file,       \* clean_tags: the lines of the file it rewrites
    changes_made,     \* clean_tags: changes_made of its last run
    ollama_reply,     \* send_to_ollama: what the model server answers
    stream_pos,       \* send_to_ollama: how many stream lines were consumed
    full_response     \* send_to_ollama: full_response

vars == <<pc, input_lines, pr_entries, batch_size, batches, batch_i,
          pr_data_list, ollama_response, parse_lines, parse_pos,
          current_category, categorized, categories, output_md, output_url_md, log_file,
          unprocessed_file, clean_file, changes_made, ollama_reply, stream_pos,
          full_response>>

----------------------------------------------------------------------------
(* Bounds of the model.                                                    *)

MaxTitleTokens == 4    \* tokens per generated input line (read_pr_list)

MaxListLen == 5        \* entries of a list given to prepare_batches

MaxBatchSize == 3      \* batch_size given to prepare_batches

MaxInputLines == 7     \* lines of main's input file

MaxParseLines == 3     \* lines of a response scanned line by line

MaxRounds == 2         \* responses parsed and aggregated one after the other

MaxCleanTokens == 3    \* tokens per generated bullet line (clean_tags)

NumPRs == 6            \* distinct PR numbers in main's input file

MaxBullets == 2        \* bullet lines of a generated response

MaxStreamLines == 3    \* lines of a streamed model answer

----------------------------------------------------------------------------
(* Program constants.                                                      *)

BATCH_SIZE == 5

----------------------------------------------------------------------------
(* Characters, sets and sequences.                                         *)

Digits == {"0", "1", "2", "3", "4", "5", "6", "7", "8", "9"}

\* The ASCII characters str.strip() removes: the blank, tab, line feed,
\* carriage return, form feed, vertical tab (0B) and the separators 1C, 1D,
\* 1E and 1F.  (It also removes the blanks outside ASCII, such as 85 and A0.)
Whitespace == {" ", "\t", "\n", "\r", "\f", "", "", "", "", ""}

SetMin(S) == CHOOSE x \in S : \A y \in S : x <= y

SetMax(S) == CHOOSE x \in S : \A y \in S : x >= y

RECURSIVE Concat(_)
\* "".join(parts)
Concat(parts) ==
    IF parts = <<>> THEN <<>> ELSE Head(parts) \o Concat(Tail(parts))

\* s.lstrip(chars)
LStripSet(s, cs) ==
    LET keep == {i \in 1..Len(s) : s[i] \notin cs}
    IN  IF keep = {} THEN <<>> ELSE SubSeq(s, SetMin(keep), Len(s))

\* s.rstrip(chars)
RStripSet(s, cs) ==
    LET keep == {i \in 1..Len(s) : s[i] \notin cs}
    IN  IF keep = {} THEN <<>> ELSE SubSeq(s, 1, SetMax(keep))

\* s.strip()
Strip(s) == RStripSet(LStripSet(s, Whitespace), Whitespace)

\* s.startswith(p)
StartsWith(s, p) == Len(s) >= Len(p) /\ SubSeq(s, 1, Len(p)) = p

UpperChars == <<"A", "B", "C", "D", "E", "F", "G", "H", "I", "J", "K", "L", "M",
                "N", "O", "P", "Q", "R", "S", "T", "U", "V", "W", "X", "Y", "Z">>

LowerChars == <<"a", "b", "c", "d", "e", "f", "g", "h", "i", "j", "k", "l", "m",
                "n", "o", "p", "q", "r", "s", "t", "u", "v", "w", "x", "y", "z">>

LowerChar(c) ==
    IF \E i \in 1..Len(UpperChars) : UpperChars[i] = c
    THEN LowerChars[CHOOSE i \in 1..Len(UpperChars) : UpperChars[i] = c]
    ELSE c

\* s.lower()
Lower(s) == [i \in 1..Len(s) |-> LowerChar(s[i])]

----------------------------------------------------------------------------
(* The regular expressions.                                                *)

\* The end of the longest run of digits that starts at position i (i - 1
\* when s[i] is no digit): the greedy \d+.
DigitRunEnd(s, i) ==
    SetMax({e \in (i - 1)..Len(s) : \A j \in i..e : s[j] \in Digits})

\* \(#(\d+)\) matches at position k.  A shorter run of digits is followed by
\* a digit, never by ")", so only the longest run can match.
RefMatchesAt(s, k) ==
    /\ k >= 1
    /\ k + 3 <= Len(s)
    /\ s[k] = "("
    /\ s[k + 1] = "#"
    /\ LET e == DigitRunEnd(s, k + 2)
       IN  e >= k + 2 /\ e + 1 <= Len(s) /\ s[e + 1] = ")"

\* Group 1 of \(#(\d+)\) matched at position k.
RefDigits(s, k) == SubSeq(s, k + 2, DigitRunEnd(s, k + 2))

\* The positions where \(#(\d+)\) matches; two matches never overlap.
RefStarts(s) == {k \in 1..Len(s) : RefMatchesAt(s, k)}

\* set(re.findall(r"\(#(\d+)\)", s))
RefNumbers(s) == {RefDigits(s, k) : k \in RefStarts(s)}

RECURSIVE FindAllTagsFrom(_, _)
\* re.findall(r"\[(.*?)\]", s) from position `from` on: the leftmost "[" that
\* has a "]" after it, up to the first such "]", then on from there.
FindAllTagsFrom(s, from) ==
    LET opens == {i \in from..Len(s) : s[i] = "["}
    IN  IF opens = {} THEN <<>>
        ELSE LET i == SetMin(opens)
                 closes == {j \in (i + 1)..Len(s) : s[j] = "]"}
             IN  IF closes = {} THEN <<>>
                 ELSE <<SubSeq(s, i + 1, SetMin(closes) - 1)>>
                          \o FindAllTagsFrom(s, SetMin(closes) + 1)

FindAllTags(s) == FindAllTagsFrom(s, 1)

----------------------------------------------------------------------------
(* read_pr_list                                                            *)

NoMatch == [matched |-> FALSE, group2 |-> <<>>]

\* The positions where one \[(.*?)\] that starts at `start` can end: .*? is
\* lazy, but backtracking lets it grow to any later "]".
TagGroupEnds(s, start) ==
    IF start <= Len(s) /\ s[start] = "["
    THEN {j \in (start + 1)..Len(s) : s[j] = "]"}
    ELSE {}

RECURSIVE TagPrefixEnds(_, _)
\* The positions where (?:\[(.*?)\])+ that starts at `start` can end.
TagPrefixEnds(s, start) ==
    LET one == TagGroupEnds(s, start)
    IN  one \cup UNION {TagPrefixEnds(s, e + 1) : e \in one}

\* The reference search with a lazy .*?: it stops at the first reference.
FirstRefFrom(s, from) ==
    LET ks == {k \in RefStarts(s) : k >= from}
    IN  IF ks = {} THEN NoMatch
        ELSE [matched |-> TRUE, group2 |-> RefDigits(s, SetMin(ks))]

\* .*\(#(\d+)\) from position `from` on: the greedy .* ends at the last
\* position where the reference matches.
LastRefFrom(s, from) ==
    LET ks == {k \in RefStarts(s) : k >= from}
    IN  IF ks = {} THEN NoMatch
        ELSE [matched |-> TRUE, group2 |-> RefDigits(s, SetMax(ks))]

\* pr_pattern_with_tags.match(line): ^(?:\[(.*?)\])+.*\(#(\d+)\)
pr_pattern_with_tags(line) ==
    LET ends == TagPrefixEnds(line, 1)
    IN  IF ends = {} THEN NoMatch ELSE LastRefFrom(line, SetMin(ends) + 1)

\* The pattern without its negative lookahead.
pr_pattern_without_lookahead(line) == LastRefFrom(line, 1)

\* pr_pattern_without_tags.match(line): ^(?!\[(.*?)\]).*\(#(\d+)\)
pr_pattern_without_tags(line) ==
    IF TagGroupEnds(line, 1) # {} THEN NoMatch ELSE LastRefFrom(line, 1)

\* The body of read_pr_list's loop for one line: the entries it appends.
ReadLine(raw) ==
    LET line == Strip(raw)
        with == pr_pattern_with_tags(line)
        without == pr_pattern_without_tags(line)
    IN  IF with.matched
        THEN <<[number |-> with.group2, original_title |-> line,
                tags |-> FindAllTags(line)]>>
        ELSE IF without.matched
        THEN <<[number |-> without.group2, original_title |-> line,
                tags |-> <<>>]>>
        ELSE <<>>

RECURSIVE read_pr_list(_)
read_pr_list(lines) ==
    IF lines = <<>> THEN <<>>
    ELSE ReadLine(Head(lines)) \o read_pr_list(Tail(lines))

----------------------------------------------------------------------------
(* prepare_batches                                                         *)

\* The values range(0, n, step) takes, as a sequence (step >= 1).
RangeStarts(n, step) == [k \in 1..((n + step - 1) \div step) |-> (k - 1) * step]

\* Slice with its end one position early.
SliceShort(l, i, j) == SubSeq(l, i + 1, IF j - 1 < Len(l) THEN j - 1 ELSE Len(l))

\* pr_data_list[i:i + batch_size]: a slice stops at the end of the list.
Slice(l, i, j) == SubSeq(l, i + 1, IF j < Len(l) THEN j ELSE Len(l))

prepare_batches(l, size) ==
    LET starts == RangeStarts(Len(l), size)
    IN  [k \in 1..Len(starts) |-> Slice(l, starts[k], starts[k] + size)]

----------------------------------------------------------------------------
(* send_to_ollama                                                          *)
(*                                                                         *)
(* The server's answer is [post_raises, status, lines]: requests.post      *)
(* raises or returns a response with a status code and the lines of its    *)
(* stream.  A line is [kind, response, done]:                              *)
(*   "blank"        an empty line (skipped by `if line`)                   *)
(*   "malformed"    text json.loads rejects (JSONDecodeError)              *)
(*   "undecodable"  bytes that are not UTF-8 (UnicodeDecodeError)          *)
(*   "nonobject"    JSON that is no object: a number, a list, a string     *)
(*   "broken"       the connection breaks: iter_lines raises               *)
(*   "object"       a JSON object; response is Absent when it has no       *)
(*                  'response' key, NotText when the value is no string,   *)
(*                  else the text; done is the truth of its 'done' value   *)

Absent == <<"<absent>">>

NotText == <<"<null>">>

Fragment(kind, response, done) == [kind |-> kind, response |-> response, done |-> done]

NoReply == [post_raises |-> FALSE, status |-> 0, lines |-> <<>>]

\* Lines 238-246, one pass of the loop over the stream: st is
\* [full_response, at], at being "reading", "done" (break) or "raised" (an
\* exception that only the outer handler catches).
ConsumeLine(st, line) ==
    IF line.kind = "blank" \/ line.kind = "malformed" THEN st
    ELSE IF line.kind \in {"undecodable", "nonobject", "broken"}
    THEN [st EXCEPT !.at = "raised"]
    ELSE IF line.response = NotText THEN [st EXCEPT !.at = "raised"]
    ELSE [full_response |-> IF line.response = Absent THEN st.full_response
                            ELSE st.full_response \o line.response,
          at |-> IF line.done THEN "done" ELSE "reading"]

RECURSIVE ConsumeLines(_, _)
\* The loop: it goes on while no line broke out of it or raised.
ConsumeLines(st, lines) ==
    IF lines = <<>> \/ st.at # "reading" THEN st
    ELSE ConsumeLines(ConsumeLine(st, Head(lines)), Tail(lines))

StreamStart == [full_response |-> <<>>, at |-> "reading"]

\* send_to_ollama with the non-200 branch left out.
send_to_ollama_any_status(reply) ==
    LET st == ConsumeLines(StreamStart, reply.lines)
    IN  IF reply.post_raises THEN <<>>
        ELSE IF st.at = "raised" THEN <<>>
        ELSE Strip(st.full_response)

\* send_to_ollama: "" when the request raises, the status is not 200 or an
\* exception leaves the loop; else the stripped accumulated text.
send_to_ollama(reply) ==
    LET st == ConsumeLines(StreamStart, reply.lines)
    IN  IF reply.post_raises THEN <<>>
        ELSE IF reply.status # 200 THEN <<>>
        ELSE IF st.at = "raised" THEN <<>>
        ELSE Strip(st.full_response)

----------------------------------------------------------------------------
(* parse_ollama_response                                                   *)

None == "None"

CategoryKeys == <<"bc_breaking", "deprecations", "new_features", "improvements",
                  "bug_fixes", "performance", "documentation", "developers">>

KeySet == {CategoryKeys[i] : i \in 1..Len(CategoryKeys)}

EmptyCategories == [k \in KeySet |-> <<>>]

\* category_mapping, read from key to title (generate_markdown's
\* category_title is the same table read this way).
CategoryTitle ==
    [bc_breaking   |-> <<"B", "C", " ", "b", "r", "e", "a", "k", "i", "n", "g">>,
     deprecations  |-> <<"D", "e", "p", "r", "e", "c", "a", "t", "i", "o", "n", "s">>,
     new_features  |-> <<"N", "e", "w", "_", "f", "e", "a", "t", "u", "r", "e", "s">>,
     improvements  |-> <<"I", "m", "p", "r", "o", "v", "e", "m", "e", "n", "t", "s">>,
     bug_fixes     |-> <<"B", "u", "g", " ", "F", "i", "x", "e", "s">>,
     performance   |-> <<"P", "e", "r", "f", "o", "r", "m", "a", "n", "c", "e">>,
     documentation |-> <<"D", "o", "c", "u", "m", "e", "n", "t", "a", "t", "i", "o", "n">>,
     developers    |-> <<"D", "e", "v", "e", "l", "o", "p", "e", "r", "s">>]

\* category_mapping.get(category_title, None): the key whose title is
\* exactly category_title.
category_mapping_get(category_title) ==
    IF \E k \in KeySet : CategoryTitle[k] = category_title
    THEN CHOOSE k \in KeySet : CategoryTitle[k] = category_title
    ELSE None

\* The ASCII line boundaries of str.splitlines(): line feed, carriage return,
\* form feed, vertical tab (0B) and the separators 1C, 1D and 1E.  (It also
\* splits at 85, 2028 and 2029, outside ASCII.)
LineBreaks == {"\n", "\r", "\f", "", "", "", ""}

RECURSIVE SplitLines(_)
\* text.splitlines(): the lines without their line ends, "\r\n" being one line
\* break, and no last empty line after a final line break.
SplitLines(text) ==
    LET breaks == {i \in 1..Len(text) : text[i] \in LineBreaks}
        b      == SetMin(breaks)
        after  == IF text[b] = "\r" /\ b < Len(text) /\ text[b + 1] = "\n"
                  THEN b + 2 ELSE b + 1
    IN  IF text = <<>> THEN <<>>
        ELSE IF breaks = {} THEN <<text>>
        ELSE <<SubSeq(text, 1, b - 1)>> \o SplitLines(SubSeq(text, after, Len(text)))

RECURSIVE UniversalNewlines(_)
\* What open(path, 'r') hands to the reader: "\r\n" and a lone "\r" read as "\n".
UniversalNewlines(text) ==
    LET returns == {i \in 1..Len(text) : text[i] = "\r"}
        r       == SetMin(returns)
        after   == IF r < Len(text) /\ text[r + 1] = "\n" THEN r + 2 ELSE r + 1
    IN  IF returns = {} THEN text
        ELSE SubSeq(text, 1, r - 1) \o <<"\n">>
                 \o UniversalNewlines(SubSeq(text, after, Len(text)))

RECURSIVE KeepEnds(_)
\* The lines of a text that was read, each with its "\n", the last one maybe
\* without.
KeepEnds(text) ==
    LET nl == {i \in 1..Len(text) : text[i] = "\n"}
    IN  IF text = <<>> THEN <<>>
        ELSE IF nl = {} THEN <<text>>
        ELSE <<SubSeq(text, 1, SetMin(nl))>>
                 \o KeepEnds(SubSeq(text, SetMin(nl) + 1, Len(text)))

\* f.readlines(), and the lines "for line in f" yields, of a file opened in
\* text mode: the lines of the translated text, each with its "\n".
ReadLinesKeepEnds(text) == KeepEnds(UniversalNewlines(text))

NoBullet == [matched |-> FALSE, group1 |-> <<>>, group2 |-> <<>>, group3 |-> <<>>]

\* " (.*?) \(#(\d+)\)" from position p on: s[p] is the space, the lazy
\* summary ends before the first later space that a reference follows.
BulletRest(s, p, tags) ==
    LET ends == {q \in (p + 1)..Len(s) : s[q] = " " /\ RefMatchesAt(s, q + 1)}
    IN  IF p > Len(s) \/ s[p] # " " \/ ends = {} THEN NoBullet
        ELSE [matched |-> TRUE, group1 |-> tags,
              group2 |-> SubSeq(s, p + 1, SetMin(ends) - 1),
              group3 |-> RefDigits(s, SetMin(ends) + 1)]

\* pr_pattern.match(line): -(?:\[(.*?)\])? (.*?) \(#(\d+)\)
\* The optional tag group directly follows the dash and is tried first, from
\* its shortest content on; group1 is empty when the group did not take part.
pr_pattern(s) ==
    IF s = <<>> \/ s[1] # "-" THEN NoBullet
    ELSE LET good == {e \in TagGroupEnds(s, 2) :
                          BulletRest(s, e + 1, <<>>).matched}
         IN  IF good # {}
             THEN BulletRest(s, SetMin(good) + 1, SubSeq(s, 3, SetMin(good) - 1))
             ELSE BulletRest(s, 2, <<>>)

\* The summary of an entry: f"[{tags}] {summary}" if tags else f"{summary}"
EntrySummary(m) ==
    IF m.group1 # <<>> THEN <<"[">> \o m.group1 \o <<"]", " ">> \o m.group2
    ELSE m.group2

\* The header looked up without regard to letter case.
HeaderCategoryAnyCase(line) ==
    LET title == Lower(Strip(RStripSet(SubSeq(line, 4, Len(line)), {":"})))
    IN  IF \E k \in KeySet : Lower(CategoryTitle[k]) = title
        THEN CHOOSE k \in KeySet : Lower(CategoryTitle[k]) = title
        ELSE None

\* The "## " branch: the category a header line sets.
HeaderCategory(line) ==
    category_mapping_get(Strip(RStripSet(SubSeq(line, 4, Len(line)), {":"})))

\* The loop pass with an unknown header leaving the current category as it was.
ParseLineKeepCategory(st, raw) ==
    LET line == Strip(raw)
        m == pr_pattern(line)
    IN  IF StartsWith(line, <<"#", "#", " ">>)
        THEN IF HeaderCategory(line) = None THEN st
             ELSE [st EXCEPT !.current_category = HeaderCategory(line)]
        ELSE IF StartsWith(line, <<"-", " ">>)
        THEN IF m.matched /\ st.current_category # None
             THEN [st EXCEPT !.categories[st.current_category] =
                       Append(@, [summary |-> EntrySummary(m),
                                  pr_number |-> m.group3])]
             ELSE st
        ELSE st

\* One pass of parse_ollama_response's loop: st is
\* [current_category, categories].
ParseLine(st, raw) ==
    LET line == Strip(raw)
        m == pr_pattern(line)
    IN  IF StartsWith(line, <<"#", "#", " ">>)
        THEN [st EXCEPT !.current_category = HeaderCategory(line)]
        ELSE IF StartsWith(line, <<"-", " ">>)
        THEN IF m.matched /\ st.current_category # None
             THEN [st EXCEPT !.categories[st.current_category] =
                       Append(@, [summary |-> EntrySummary(m),
                                  pr_number |-> m.group3])]
             ELSE st
        ELSE st

RECURSIVE ParseLines(_, _)
ParseLines(st, lines) ==
    IF lines = <<>> THEN st
    ELSE ParseLines(ParseLine(st, Head(lines)), Tail(lines))

ParseStart == [current_category |-> None, categories |-> EmptyCategories]

parse_ollama_response(response_text) ==
    ParseLines(ParseStart, SplitLines(response_text)).categories

----------------------------------------------------------------------------
(* main's tag merge, aggregate_markdown, generate_markdown                 *)

SeqToSet(s) == {s[i] : i \in 1..Len(s)}

\* extract_tags_from_summary
extract_tags_from_summary(summary) ==
    {Lower(t) : t \in SeqToSet(FindAllTags(summary))}

\* The orders in which iterating a set can yield its elements.
SetOrders(S) ==
    {f \in [1..Cardinality(S) -> S] : \A i, j \in DOMAIN f : i # j => f[i] # f[j]}

\* "".join([f"[{tag}]" for tag in order])
FormatTags(order) ==
    Concat([i \in 1..Len(order) |-> <<"[">> \o order[i] \o <<"]">>])

\* main, lines 504-524, for one entry: the entries the merge can leave.  The
\* order of the missing tags is the iteration order of a set of strings, which
\* differs from run to run.
MergedEntries(pr, data) ==
    LET found == {i \in 1..Len(data) : data[i].number = pr.pr_number}
        pr_detail == data[SetMin(found)]
        original_tags == {Lower(t) : t \in SeqToSet(pr_detail.tags)}
        missing_tags == original_tags \ extract_tags_from_summary(pr.summary)
    IN  IF found = {} \/ missing_tags = {} THEN {pr}
        ELSE {[pr EXCEPT !.summary = FormatTags(o) \o <<" ">> \o @] :
                  o \in SetOrders(missing_tags)}

RECURSIVE MergedLists(_, _)
MergedLists(prs, data) ==
    IF prs = <<>> THEN {<<>>}
    ELSE {<<h>> \o t : h \in MergedEntries(Head(prs), data),
                       t \in MergedLists(Tail(prs), data)}

RECURSIVE MergedMapsFrom(_, _, _)
MergedMapsFrom(cats, data, n) ==
    IF n = 0 THEN {cats}
    ELSE {[m EXCEPT ![CategoryKeys[n]] = l] :
              m \in MergedMapsFrom(cats, data, n - 1),
              l \in MergedLists(cats[CategoryKeys[n]], data)}

\* main, lines 502-524 over the whole parse result.
MergedMaps(cats, data) == MergedMapsFrom(cats, data, Len(CategoryKeys))

RECURSIVE WithoutKnownNumbers(_, _)
\* The entries of `new` whose number no entry of `seen` or earlier entry of
\* `new` has.
WithoutKnownNumbers(seen, new) ==
    IF new = <<>> THEN <<>>
    ELSE IF \E i \in 1..Len(seen) : seen[i].pr_number = Head(new).pr_number
    THEN WithoutKnownNumbers(seen, Tail(new))
    ELSE <<Head(new)>> \o WithoutKnownNumbers(Append(seen, Head(new)), Tail(new))

\* The merge leaving out the entries of a PR number already listed.
aggregate_markdown_unique(existing, new) ==
    [k \in DOMAIN existing |->
        existing[k] \o (IF k \in DOMAIN new
                        THEN WithoutKnownNumbers(existing[k], new[k]) ELSE <<>>)]

aggregate_markdown(existing, new) ==
    [k \in DOMAIN existing |->
        existing[k] \o (IF k \in DOMAIN new THEN new[k] ELSE <<>>)]

PullUrl == <<"h", "t", "t", "p", "s", ":", "/", "/", "g", "i", "t", "h", "u", "b",
             ".", "c", "o", "m", "/", "p", "y", "t", "o", "r", "c", "h", "/",
             "p", "y", "t", "o", "r", "c", "h", "/", "p", "u", "l", "l", "/">>

\* The bullet with the "#" of the plain reference left out.
EntryLineNoHash(pr, include_urls) ==
    IF include_urls
    THEN <<"-", " ">> \o pr.summary \o <<" ", "[", "#">> \o pr.pr_number
             \o <<"]", "(">> \o PullUrl \o pr.pr_number \o <<")", ".", "\n">>
    ELSE <<"-", " ">> \o pr.summary \o <<" ", "(">> \o pr.pr_number
             \o <<")", ".", "\n">>

\* One bullet of generate_markdown.
EntryLine(pr, include_urls) ==
    IF include_urls
    THEN <<"-", " ">> \o pr.summary \o <<" ", "[", "#">> \o pr.pr_number
             \o <<"]", "(">> \o PullUrl \o pr.pr_number \o <<")", ".", "\n">>
    ELSE <<"-", " ">> \o pr.summary \o <<" ", "(", "#">> \o pr.pr_number
             \o <<")", ".", "\n">>

\* One category of generate_markdown: nothing when it has no entry.
CategoryBlock(cats, key, include_urls) ==
    LET entries == IF key \in DOMAIN cats THEN cats[key] ELSE <<>>
    IN  IF entries = <<>> THEN <<>>
        ELSE <<"#", "#", " ">> \o CategoryTitle[key] \o <<":", "\n">>
                 \o Concat([i \in 1..Len(entries) |->
                               EntryLine(entries[i], include_urls)])
                 \o <<"\n">>

generate_markdown(cats, include_urls) ==
    Strip(Concat([i \in 1..Len(CategoryKeys) |->
                     CategoryBlock(cats, CategoryKeys[i], include_urls)]))

----------------------------------------------------------------------------
(* Files, extract_pr_numbers_from_release, summarize_processing            *)

NoFile == [exists |-> FALSE, text |-> <<>>]

\* open(file_path, 'w') and write: the text replaces the content.
save_output(markdown) == [exists |-> TRUE, text |-> markdown]

extract_pr_numbers_from_release(file) ==
    IF ~file.exists THEN {}
    ELSE UNION {RefNumbers(l) : l \in SeqToSet(ReadLinesKeepEnds(file.text))}

\* summarize_processing writing the file whether or not a PR is unprocessed.
summarize_processing_always(input_prs, release_pr_numbers, file) ==
    LET keep == [i \in 1..Len(input_prs) |->
                    IF input_prs[i].number \in release_pr_numbers THEN <<>>
                    ELSE input_prs[i].original_title \o <<"\n">>]
    IN  [exists |-> TRUE, text |-> Concat(keep)]

\* summarize_processing: the unprocessed-PR file it leaves.
summarize_processing(input_prs, release_pr_numbers, file) ==
    LET input_pr_numbers == {input_prs[i].number : i \in 1..Len(input_prs)}
        unprocessed_pr_numbers == input_pr_numbers \ release_pr_numbers
        keep == [i \in 1..Len(input_prs) |->
                    IF input_prs[i].number \in unprocessed_pr_numbers
                    THEN input_prs[i].original_title \o <<"\n">>
                    ELSE <<>>]
    IN  IF Cardinality(unprocessed_pr_numbers) > 0
        THEN [exists |-> TRUE, text |-> Concat(keep)]
        ELSE file

----------------------------------------------------------------------------
(* remove_redundant_tags.py: clean_tags                                    *)

RECURSIVE RemoveTagsFrom(_, _)
\* re.sub(r'\[.*?\]', '', s) from position `from` on.
RemoveTagsFrom(s, from) ==
    LET opens == {i \in from..Len(s) : s[i] = "["}
    IN  IF opens = {} THEN SubSeq(s, from, Len(s))
        ELSE LET i == SetMin(opens)
                 closes == {j \in (i + 1)..Len(s) : s[j] = "]"}
             IN  IF closes = {} THEN SubSeq(s, from, Len(s))
                 ELSE SubSeq(s, from, i - 1)
                          \o RemoveTagsFrom(s, SetMin(closes) + 1)

RemoveTags(s) == RemoveTagsFrom(s, 1)

RECURSIVE CleanedTags(_, _, _)
\* The loop over tags (lines 53-71): cleaned_tags, given seen_tags so far.
CleanedTags(tags, seen_tags, category) ==
    IF tags = <<>> THEN <<>>
    ELSE LET tag_cleaned == Strip(Head(tags))
             tag_lower == Lower(tag_cleaned)
         IN  IF tag_lower = <<>> \/ tag_lower = category \/ tag_lower \in seen_tags
             THEN CleanedTags(Tail(tags), seen_tags, category)
             ELSE <<(<<"[">> \o tag_cleaned \o <<"]">>)>>
                      \o CleanedTags(Tail(tags), seen_tags \cup {tag_lower}, category)

RECURSIVE JoinSpace(_)
\* ' '.join(parts)
JoinSpace(parts) ==
    IF parts = <<>> THEN <<>>
    ELSE IF Len(parts) = 1 THEN Head(parts)
    ELSE Head(parts) \o <<" ">> \o JoinSpace(Tail(parts))

\* Lines 37-77: the line a bullet line is rebuilt as.
RebuiltLine(original_line, category) ==
    LET line == Strip(original_line)
        tags == FindAllTags(line)
        content == Strip(LStripSet(Strip(RemoveTags(line)), {"-", " "}))
        cleaned_tags == CleanedTags(tags, {}, category)
    IN  <<"-", " ">> \o JoinSpace(cleaned_tags)
            \o (IF cleaned_tags # <<>> THEN <<" ">> ELSE <<>>)
            \o content \o <<"\n">>

\* line.strip('##').strip().rstrip(':').lower()
CleanCategory(line) ==
    Lower(RStripSet(Strip(RStripSet(LStripSet(line, {"#"}), {"#"})), {":"}))

\* One pass of clean_tags' loop: st is
\* [current_category, cleaned_lines, changes_made].
CleanLine(st, line) ==
    IF StartsWith(line, <<"#", "#">>)
    THEN [st EXCEPT !.current_category = CleanCategory(line),
                    !.cleaned_lines = Append(@, line)]
    ELSE IF ~StartsWith(Strip(line), <<"-">>)
    THEN [st EXCEPT !.cleaned_lines = Append(@, line)]
    ELSE LET new_line == RebuiltLine(line, st.current_category)
         IN  [st EXCEPT !.cleaned_lines = Append(@, new_line),
                        !.changes_made = @ \/ new_line # line]

RECURSIVE CleanLines(_, _)
CleanLines(st, lines) ==
    IF lines = <<>> THEN st
    ELSE CleanLines(CleanLine(st, Head(lines)), Tail(lines))

\* clean_tags on a file that exists: the text it leaves and whether it
\* reported changes.  The file is written only when a line changed.
clean_tags(text) ==
    LET st == CleanLines([current_category |-> <<>>, cleaned_lines |-> <<>>,
                          changes_made |-> FALSE], ReadLinesKeepEnds(text))
    IN  [text |-> IF st.changes_made THEN Concat(st.cleaned_lines) ELSE text,
         changes_made |-> st.changes_made]

----------------------------------------------------------------------------
(* Inputs.                                                                 *)

RECURSIVE TokenLines(_, _)
\* The texts made of at most n of the given tokens.
TokenLines(tokens, n) ==
    IF n = 0 THEN {<<>>}
    ELSE LET shorter == TokenLines(tokens, n - 1)
         IN  shorter \cup {t \o l : t \in tokens, l \in shorter}

TitleTokens ==
    {<<"[", "a", "]">>, <<"[", "B", "]">>, <<"[">>, <<" ", "x", " ">>,
     <<"(", "#", "1", ")">>, <<"(", "#", "2", "2", ")">>}

TitleLines == TokenLines(TitleTokens, MaxTitleTokens)

WellFormedTitle == <<"y", " ", "(", "#", "7", ")">>

MalformedTitle == <<"b", "a", "d">>

\* The input files of read_pr_list: one generated line, alone, before a
\* well-formed line or after a malformed one.
TitleFiles ==
    {<<l>> : l \in TitleLines}
        \cup {<<l, WellFormedTitle>> : l \in TitleLines}
        \cup {<<MalformedTitle, l>> : l \in TitleLines}

RECURSIVE SeqsUpTo(_, _)
\* The sequences of at most n elements of S.
SeqsUpTo(S, n) ==
    IF n = 0 THEN {<<>>}
    ELSE LET shorter == SeqsUpTo(S, n - 1)
         IN  shorter \cup {<<x>> \o l : x \in S, l \in shorter}

----------------------------------------------------------------------------
(* The variables a procedure does not use.                                 *)

titleIdle == input_lines = <<>> /\ pr_entries = <<>>

batchIdle == batch_size = 0 /\ batches = <<>> /\ batch_i = 0

fetchIdle == pr_data_list = <<>> /\ ollama_response = <<>>

parseIdle ==
    /\ parse_lines = <<>>
    /\ parse_pos = 0
    /\ current_category = None
    /\ categorized = EmptyCategories

filesIdle ==
    /\ categories = EmptyCategories
    /\ output_md = NoFile
    /\ output_url_md = NoFile
    /\ log_file = NoFile
    /\ unprocessed_file = NoFile

cleanIdle == clean_file = <<>> /\ changes_made = FALSE

titleVars == <<input_lines, pr_entries>>

batchVars == <<batch_size, batches, batch_i>>

fetchVars == <<pr_data_list, ollama_response>>

parseVars == <<parse_lines, parse_pos, current_category, categorized>>

fileVars == <<categories, output_md, output_url_md, log_file, unprocessed_file>>

cleanVars == <<clean_file, changes_made>>

sendIdle == ollama_reply = NoReply /\ stream_pos = 0 /\ full_response = <<>>

sendVars == <<ollama_reply, stream_pos, full_response>>

----------------------------------------------------------------------------
(* read_pr_list on an input file.                                          *)

InitTitle ==
    /\ pc = "read"
    /\ input_lines \in TitleFiles
    /\ pr_entries = <<>>
    /\ batchIdle /\ fetchIdle /\ parseIdle /\ filesIdle /\ cleanIdle /\ sendIdle

ReadPrList ==
    /\ pc = "read"
    /\ pr_entries' = read_pr_list(input_lines)
    /\ pc' = "read_done"
    /\ UNCHANGED <<input_lines, batchVars, fetchVars, parseVars, fileVars, cleanVars, sendVars>>

NextTitle == ReadPrList

SpecTitle == InitTitle /\ [][NextTitle]_vars

----------------------------------------------------------------------------
(* prepare_batches on a list.                                              *)

InitBatches ==
    /\ pc = "batch"
    /\ input_lines = <<>>
    /\ pr_entries \in SeqsUpTo({"p", "q"}, MaxListLen)
    /\ batch_size \in 1..MaxBatchSize
    /\ batches = <<>>
    /\ batch_i = 0
    /\ fetchIdle /\ parseIdle /\ filesIdle /\ cleanIdle /\ sendIdle

PrepareBatches ==
    /\ pc = "batch"
    /\ batches' = prepare_batches(pr_entries, batch_size)
    /\ pc' = "batch_done"
    /\ UNCHANGED <<titleVars, batch_size, batch_i, fetchVars, parseVars,
                   fileVars, cleanVars, sendVars>>

NextBatches == PrepareBatches

SpecBatches == InitBatches /\ [][NextBatches]_vars

----------------------------------------------------------------------------
(* main                                                                    *)

DigitChars == <<"1", "2", "3", "4", "5", "6", "7", "8", "9">>

\* Line k of a generated input file: PR number ((k - 1) % NumPRs) + 1, with a
\* tag on the odd lines.
MainTitle(k) ==
    (IF k % 2 = 1 THEN <<"[", "a", "]", " ">> ELSE <<>>)
        \o <<"t", " ", "(", "#", DigitChars[((k - 1) % NumPRs) + 1], ")">>

\* An input file of n lines whose line `bad` (if any) is malformed.
InputFile(n, bad) ==
    [k \in 1..n |-> IF k = bad THEN MalformedTitle ELSE MainTitle(k)]

MainInputs == {InputFile(n, bad) : n \in 0..MaxInputLines, bad \in 0..MaxInputLines}

\* What the primary output file holds when main starts: nothing, or the
\* output of an earlier run.
EarlierOutputs ==
    {NoFile,
     save_output(<<"#", "#", " ", "B", "u", "g", " ", "F", "i", "x", "e", "s", ":", "\n",
                   "-", " ", "t", " ", "(", "#", "1", ")", ".", "\n",
                   "-", " ", "t", " ", "(", "#", "2", ")", ".">>),
     save_output(Concat([k \in 1..Len(DigitChars) |->
                            <<"-", " ", "t", " ", "(", "#", DigitChars[k], ")", ".", "\n">>]))}

\* What the unprocessed-PR file holds when main starts.
EarlierUnprocessed ==
    {NoFile, save_output(<<"o", "l", "d", " ", "(", "#", "9", ")", "\n">>)}

\* The texts a model call can stream: nothing, blanks, prose, a categorized
\* answer.
StreamedTexts ==
    {<<>>, <<" ", "\n">>, <<"o", "k">>,
     <<"#", "#", " ", "B", "u", "g", " ", "F", "i", "x", "e", "s", ":", "\n",
       "-", " ", "t", " ", "(", "#", "1", ")", "\n">>}

\* What the model server can answer in a run of main: a refused connection,
\* an error status, each text in one final fragment, a text cut short by
\* bytes that are not UTF-8.
MainReplies ==
    {[post_raises |-> TRUE, status |-> 0, lines |-> <<>>],
     [post_raises |-> FALSE, status |-> 500,
      lines |-> <<Fragment("object", <<"o", "k">>, TRUE)>>],
     [post_raises |-> FALSE, status |-> 200,
      lines |-> <<Fragment("object", <<"o", "k">>, FALSE),
                  Fragment("undecodable", Absent, FALSE)>>]}
        \cup {[post_raises |-> FALSE, status |-> 200,
               lines |-> <<Fragment("object", t, TRUE)>>] : t \in StreamedTexts}

\* send_to_ollama's return values.
OllamaReturns == {send_to_ollama(reply) : reply \in MainReplies}

RECURSIVE SelectAt(_, _, _)
\* The elements of l at the positions in keep, in order, from position k on.
SelectAt(l, keep, k) ==
    IF k > Len(l) THEN <<>>
    ELSE (IF k \in keep THEN <<l[k]>> ELSE <<>>) \o SelectAt(l, keep, k + 1)

InitMain ==
    /\ pc = "main"
    /\ input_lines \in MainInputs
    /\ pr_entries = <<>>
    /\ batch_size = BATCH_SIZE
    /\ batches = <<>>
    /\ batch_i = 0
    /\ fetchIdle /\ parseIdle /\ cleanIdle /\ sendIdle
    /\ categories = EmptyCategories
    /\ output_md \in EarlierOutputs
    /\ output_url_md = NoFile
    /\ log_file = NoFile
    /\ unprocessed_file \in EarlierUnprocessed

\* Lines 443-464: read the list; return when it is empty, else batch it.
MainStartup ==
    /\ pc = "main"
    /\ pr_entries' = read_pr_list(input_lines)
    /\ IF pr_entries' = <<>>
       THEN pc' = "returned" /\ UNCHANGED batches
       ELSE pc' = "loop" /\ batches' = prepare_batches(pr_entries', BATCH_SIZE)
    /\ UNCHANGED <<input_lines, batch_size, batch_i, fetchVars, parseVars,
                   fileVars, cleanVars, sendVars>>

\* Lines 466-484: the next batch; every fetch_pr_details succeeds or returns
\* None; with no PR fetched the batch is skipped.
FetchBatch ==
    /\ pc = "loop"
    /\ batch_i < Len(batches)
    /\ batch_i' = batch_i + 1
    /\ \E fetched \in SUBSET (1..Len(batches[batch_i + 1])) :
          /\ pr_data_list' = SelectAt(batches[batch_i + 1], fetched, 1)
          /\ pc' = IF fetched = {} THEN "loop" ELSE "send"
    /\ ollama_response' = <<>>
    /\ UNCHANGED <<titleVars, batch_size, batches, parseVars, fileVars, cleanVars, sendVars>>

\* Lines 486-493: the model call; an empty return skips the batch.
SendToOllama ==
    /\ pc = "send"
    /\ \E reply \in MainReplies :
          /\ ollama_reply' = reply
          /\ ollama_response' = send_to_ollama(reply)
          /\ pc' = IF ollama_response' = <<>> THEN "loop" ELSE "log"
    /\ UNCHANGED <<titleVars, batchVars, pr_data_list, parseVars, fileVars, cleanVars,
                   stream_pos, full_response>>

\* Line 496: log_ollama_response opens LOG_FILE, a name that no line of the
\* module binds: the call raises NameError, which nothing catches, and main
\* ends there.
LogOllamaResponse ==
    /\ pc = "log"
    /\ pc' = "NameError"
    /\ UNCHANGED <<titleVars, batchVars, fetchVars, parseVars, fileVars, cleanVars, sendVars>>

\* Lines 542-551: after the last batch, reconcile.
Reconcile ==
    /\ pc = "loop"
    /\ batch_i = Len(batches)
    /\ unprocessed_file' =
           summarize_processing(pr_entries,
                                extract_pr_numbers_from_release(output_md),
                                unprocessed_file)
    /\ pc' = "reconciled"
    /\ UNCHANGED <<titleVars, batchVars, fetchVars, parseVars, categories,
                   output_md, output_url_md, log_file, cleanVars, sendVars>>

Next ==
    \/ MainStartup
    \/ FetchBatch
    \/ SendToOllama
    \/ LogOllamaResponse
    \/ Reconcile

Init == InitMain

Spec == Init /\ [][Next]_vars

----------------------------------------------------------------------------
(* parse_ollama_response, line by line.                                    *)

HeaderMark == <<"#", "#", " ">>

\* "## <title>:" as generate_markdown and the prompt's example write it.
CanonicalHeader(k) == HeaderMark \o CategoryTitle[k] \o <<":">>

BugFixes == CategoryTitle["bug_fixes"]

\* Headers that differ from a canonical one in case, spacing or colons, and
\* headers of no category.
VariantHeaders ==
    {HeaderMark \o Lower(CategoryTitle[k]) \o <<":">> : k \in KeySet}
        \cup {HeaderMark \o <<"B", "U", "G", " ", "F", "I", "X", "E", "S">>,
              HeaderMark \o <<"B", "u", "g", " ", " ", "F", "i", "x", "e", "s", ":">>,
              HeaderMark \o <<" ">> \o BugFixes \o <<" ", ":", ":">>,
              <<" ">> \o HeaderMark \o BugFixes \o <<" ">>,
              HeaderMark \o BugFixes \o <<":", " ", ":">>,
              HeaderMark \o BugFixes \o <<"x">>,
              <<"#", "#">> \o BugFixes,
              HeaderMark \o <<"O", "t", "h", "e", "r", ":">>}

HeaderLines == {CanonicalHeader(k) : k \in KeySet} \cup VariantHeaders

\* What follows a header: bullets that fit the grammar or not, prose, headers.
BodyLines ==
    {<<"-", " ", "t", " ", "(", "#", "1", ")">>,
     <<"-", " ", "t", " ", "(", "#", "2", ")", ".">>,
     <<"-", " ", "t">>,
     <<"t", "e", "x", "t">>,
     <<>>,
     CanonicalHeader("improvements"),
     HeaderMark \o <<"O", "t", "h", "e", "r", ":">>}

\* The responses scanned: a first line of any kind and body lines after it.
ParseInputs ==
    {<<h>> \o b : h \in HeaderLines \cup BodyLines,
                  b \in SeqsUpTo(BodyLines, MaxParseLines - 1)}

InitParse ==
    /\ pc = "scan"
    /\ parse_lines \in ParseInputs
    /\ parse_pos = 0
    /\ current_category = None
    /\ categorized = EmptyCategories
    /\ titleIdle /\ batchIdle /\ fetchIdle /\ filesIdle /\ cleanIdle /\ sendIdle

\* One pass of the loop of lines 297-320.
ParseStep ==
    /\ pc = "scan"
    /\ parse_pos < Len(parse_lines)
    /\ LET st == ParseLine([current_category |-> current_category,
                            categories |-> categorized],
                           parse_lines[parse_pos + 1])
       IN  /\ current_category' = st.current_category
           /\ categorized' = st.categories
    /\ parse_pos' = parse_pos + 1
    /\ UNCHANGED <<pc, parse_lines, titleVars, batchVars, fetchVars, fileVars,
                   cleanVars, sendVars>>

NextParse == ParseStep

SpecParse == InitParse /\ [][NextParse]_vars

----------------------------------------------------------------------------
(* parse_ollama_response, aggregate_markdown, generate_markdown and         *)
(* save_output applied one after the other to a response text.             *)

ScenarioBullet ==
    <<"-", " ", "[", "B", "u", "g", " ", "F", "i", "x", "e", "s", "]", " ",
      "F", "i", "x", "e", "s", " ", "a", " ", "c", "r", "a", "s", "h", " ",
      "(", "#", "1", "2", "3", ")">>

RenderBullets ==
    {ScenarioBullet,
     <<"-", " ", "[", "A", "]", " ", "t", " ", "(", "#", "1", ")", ".">>,
     <<"-", " ", "s", "e", "e", "(", "#", "9", ")", " ", "t", " ", "(", "#", "2", ")">>,
     <<"-", " ", "t", " ", "(", "#", "2", ")", " ", "o", "r", " ", "(", "#", "1", ")">>}

RenderHeaders ==
    {CanonicalHeader("bug_fixes"), CanonicalHeader("improvements"),
     HeaderMark \o <<"O", "t", "h", "e", "r", ":">>}

RECURSIVE JoinLines(_)
\* "\n".join(lines)
JoinLines(lines) ==
    IF lines = <<>> THEN <<>>
    ELSE IF Len(lines) = 1 THEN Head(lines)
    ELSE Head(lines) \o <<"\n">> \o JoinLines(Tail(lines))

\* The response texts handed to parse_ollama_response: bullets, maybe under
\* a header.
RenderResponses ==
    {JoinLines(<<h>> \o b) : h \in RenderHeaders, b \in SeqsUpTo(RenderBullets, MaxBullets)}
        \cup {JoinLines(b) : b \in SeqsUpTo(RenderBullets, 1) \ {<<>>}}

\* The response texts that were parsed and aggregated before.
EarlierResponses ==
    {JoinLines(<<CanonicalHeader("bug_fixes"),
                 <<"-", " ", "u", " ", "(", "#", "2", ")">>>>),
     <<"o", "k">>}

RECURSIVE AggregatedMaps(_)
\* The maps n calls of aggregate_markdown make of the map main creates
\* (lines 451-460) and the parse results of earlier responses.
AggregatedMaps(n) ==
    IF n = 0 THEN {EmptyCategories}
    ELSE {aggregate_markdown(m, parse_ollama_response(r)) :
              m \in AggregatedMaps(n - 1), r \in EarlierResponses}

\* The `existing` argument of aggregate_markdown: a map that
\* parse_ollama_response and aggregate_markdown produced in fewer than
\* MaxRounds rounds.
ExistingMaps == UNION {AggregatedMaps(n) : n \in 0..(MaxRounds - 1)}

\* The two files hold the renderings of the existing map, or are absent when
\* nothing was aggregated yet.
InitRender ==
    /\ pc = "parse_ollama_response"
    /\ ollama_response \in RenderResponses
    /\ categories \in ExistingMaps
    /\ \/ /\ categories = EmptyCategories
          /\ output_md = NoFile
          /\ output_url_md = NoFile
       \/ /\ output_md = save_output(generate_markdown(categories, FALSE))
          /\ output_url_md = save_output(generate_markdown(categories, TRUE))
    /\ log_file = NoFile
    /\ unprocessed_file = NoFile
    /\ pr_data_list = <<>>
    /\ titleIdle /\ batchIdle /\ parseIdle /\ cleanIdle /\ sendIdle

\* parse_ollama_response(response_text)
ParseResponse ==
    /\ pc = "parse_ollama_response"
    /\ categorized' = parse_ollama_response(ollama_response)
    /\ pc' = "aggregate_markdown"
    /\ UNCHANGED <<titleVars, batchVars, fetchVars, parse_lines, parse_pos,
                   current_category, fileVars, cleanVars, sendVars>>

\* aggregate_markdown(existing, new)
AggregateMarkdown ==
    /\ pc = "aggregate_markdown"
    /\ categories' = aggregate_markdown(categories, categorized)
    /\ pc' = "generate_markdown"
    /\ UNCHANGED <<titleVars, batchVars, fetchVars, parseVars, output_md,
                   output_url_md, log_file, unprocessed_file, cleanVars, sendVars>>

\* generate_markdown without and with URLs, each text handed to save_output.
RenderAndSave ==
    /\ pc = "generate_markdown"
    /\ output_md' = save_output(generate_markdown(categories, FALSE))
    /\ output_url_md' = save_output(generate_markdown(categories, TRUE))
    /\ pc' = "saved"
    /\ UNCHANGED <<titleVars, batchVars, fetchVars, parseVars, categories,
                   log_file, unprocessed_file, cleanVars, sendVars>>

NextRender == ParseResponse \/ AggregateMarkdown \/ RenderAndSave

SpecRender == InitRender /\ [][NextRender]_vars

----------------------------------------------------------------------------
(* clean_tags, run on a file and run again on the result.                  *)

CleanTokens ==
    {<<"-">>, <<" ">>, <<"\t">>, <<"[", "a", "]">>, <<"[", " ", "A", "]">>,
     <<"[", "b", "]">>, <<"x">>}

CleanHeaders == {<<>>, <<"#", "#", " ", "A", ":", "\n">>}

\* A header or none, one generated line, with or without its line end.
CleanFiles ==
    {h \o l \o e : h \in CleanHeaders,
                   l \in TokenLines(CleanTokens, MaxCleanTokens),
                   e \in {<<>>, <<"\n">>, <<"\r", "\n">>}}

InitClean ==
    /\ pc = "first_run"
    /\ clean_file \in CleanFiles
    /\ changes_made = FALSE
    /\ titleIdle /\ batchIdle /\ fetchIdle /\ parseIdle /\ filesIdle /\ sendIdle

CleanTagsRun ==
    /\ pc \in {"first_run", "second_run"}
    /\ clean_file' = clean_tags(clean_file).text
    /\ changes_made' = clean_tags(clean_file).changes_made
    /\ pc' = IF pc = "first_run" THEN "second_run" ELSE "cleaned_twice"
    /\ UNCHANGED <<titleVars, batchVars, fetchVars, parseVars, fileVars, sendVars>>

NextClean == CleanTagsRun

SpecClean == InitClean /\ [][NextClean]_vars

----------------------------------------------------------------------------
(* send_to_ollama, stream line by stream line.                             *)

\* The lines a stream can hold.
StreamFragments ==
    {Fragment("blank", Absent, FALSE),
     Fragment("malformed", Absent, FALSE),
     Fragment("undecodable", Absent, FALSE),
     Fragment("nonobject", Absent, FALSE),
     Fragment("broken", Absent, FALSE),
     Fragment("object", <<" ", "a">>, FALSE),
     Fragment("object", <<"b", " ">>, FALSE),
     Fragment("object", <<"c">>, TRUE),
     Fragment("object", Absent, TRUE),
     Fragment("object", NotText, FALSE)}

StreamReplies ==
    {[post_raises |-> TRUE, status |-> 0, lines |-> <<>>]}
        \cup {[post_raises |-> FALSE, status |-> c, lines |-> l] :
                  c \in {200, 500}, l \in SeqsUpTo(StreamFragments, MaxStreamLines)}

InitSend ==
    /\ pc = "post"
    /\ ollama_reply \in StreamReplies
    /\ stream_pos = 0
    /\ full_response = <<>>
    /\ titleIdle /\ batchIdle /\ fetchIdle /\ parseIdle /\ filesIdle /\ cleanIdle

\* Lines 234-235 and 248-254: the request; it raises, or answers with a
\* status that is 200 or not.
Post ==
    /\ pc = "post"
    /\ IF ollama_reply.post_raises \/ ollama_reply.status # 200
       THEN pc' = "sent" /\ ollama_response' = <<>>
       ELSE pc' = "stream" /\ UNCHANGED ollama_response
    /\ UNCHANGED <<titleVars, batchVars, pr_data_list, parseVars, fileVars, cleanVars,
                   sendVars>>

\* Lines 238-246: one pass of the loop over the stream.
StreamStep ==
    /\ pc = "stream"
    /\ stream_pos < Len(ollama_reply.lines)
    /\ LET st == ConsumeLine([full_response |-> full_response, at |-> "reading"],
                             ollama_reply.lines[stream_pos + 1])
       IN  /\ full_response' = st.full_response
           /\ pc' = IF st.at = "reading" THEN "stream" ELSE st.at
    /\ stream_pos' = stream_pos + 1
    /\ UNCHANGED <<titleVars, batchVars, fetchVars, parseVars, fileVars, cleanVars,
                   ollama_reply>>

\* Line 247: the loop ended or was left by break.
ReturnText ==
    /\ pc = "done" \/ (pc = "stream" /\ stream_pos = Len(ollama_reply.lines))
    /\ ollama_response' = Strip(full_response)
    /\ pc' = "sent"
    /\ UNCHANGED <<titleVars, batchVars, pr_data_list, parseVars, fileVars, cleanVars,
                   sendVars>>

\* Lines 252-254: the outer handler.
ReturnEmpty ==
    /\ pc = "raised"
    /\ ollama_response' = <<>>
    /\ pc' = "sent"
    /\ UNCHANGED <<titleVars, batchVars, pr_data_list, parseVars, fileVars, cleanVars,
                   sendVars>>

NextSend == Post \/ StreamStep \/ ReturnText \/ ReturnEmpty

SpecSend == InitSend /\ [][NextSend]_vars

----------------------------------------------------------------------------
(* Properties of main (checked under Spec).                                *)

\* C1: once main has begun processing batches, no step of a batch ends the
\* run: main never stops on an exception raised inside a batch.
C1_NoBatchStepEndsRun == pc # "NameError"

\* main is between two batches, or has ended.
OutsideBatch == pc \notin {"main", "send", "log"}

\* C2: whenever main is outside a batch and a batch has returned a non-empty
\* model response, the primary output file holds exactly
\* generate_markdown(categories, include_urls=False) and the URL output file
\* generate_markdown(categories, include_urls=True) of the map that holds that
\* batch's entries.
C2_FilesHoldRenderedMap ==
    (OutsideBatch /\ ollama_response # <<>>) =>
        \E merged \in MergedMaps(parse_ollama_response(ollama_response), pr_data_list) :
            /\ output_md =
                   save_output(generate_markdown(aggregate_markdown(categories, merged), FALSE))
            /\ output_url_md =
                   save_output(generate_markdown(aggregate_markdown(categories, merged), TRUE))

\* pat is a substring of text.
OccursIn(text, pat) ==
    \E i \in 1..(Len(text) - Len(pat) + 1) : SubSeq(text, i, i + Len(pat) - 1) = pat

\* The PR number occurs as (#<number>) in the primary output file.
Rendered(file, number) ==
    file.exists /\ OccursIn(file.text, <<"(", "#">> \o number \o <<")">>)

RECURSIVE TitlesOfMissing(_, _)
\* The original title lines, each with its line end, of the entries whose
\* number is not rendered in the file, in input order.
TitlesOfMissing(entries, file) ==
    IF entries = <<>> THEN <<>>
    ELSE (IF Rendered(file, Head(entries).number) THEN <<>>
          ELSE Head(entries).original_title \o <<"\n">>)
             \o TitlesOfMissing(Tail(entries), file)

\* C3 as stated: after main has reconciled, the unprocessed-PR file holds
\* exactly the title lines of the entries whose number is not rendered in the
\* primary output file, and no other line (none at all when every number is
\* rendered).
C3_UnprocessedExactlyMissing ==
    pc = "reconciled" =>
        unprocessed_file.text = TitlesOfMissing(pr_entries, output_md)

\* C3 as amended: when main ends, the unprocessed-PR file is written, with
\* exactly the title lines of the entries whose number is not rendered, in
\* input order, if there is such an entry; otherwise (every number rendered,
\* or no entry read) the file is left as it was before the run.
C3_UnprocessedWrittenOnlyWhenMissing ==
    [][(pc' \in {"reconciled", "returned"} /\ pc \notin {"reconciled", "returned"}) =>
          unprocessed_file' =
              IF TitlesOfMissing(pr_entries', output_md') # <<>>
              THEN save_output(TitlesOfMissing(pr_entries', output_md'))
              ELSE unprocessed_file]_vars

\* Three entries were read, the first two are rendered, and the file holds
\* the title line of the third alone.
C3_Witness ==
    /\ pc = "reconciled"
    /\ Len(pr_entries) = 3
    /\ Rendered(output_md, pr_entries[1].number)
    /\ Rendered(output_md, pr_entries[2].number)
    /\ unprocessed_file = save_output(pr_entries[3].original_title \o <<"\n">>)

----------------------------------------------------------------------------
(* Properties of prepare_batches (checked under SpecBatches).              *)

\* C8: the batches are contiguous slices of the list whose concatenation is
\* the list; every batch but the last has batch_size entries, the last has
\* between 1 and batch_size, and an empty list gives no batch.
C8_BatchesPartitionList ==
    pc = "batch_done" =>
        /\ Concat(batches) = pr_entries
        /\ \A k \in 1..Len(batches) :
              /\ batches[k] = SubSeq(pr_entries, (k - 1) * batch_size + 1,
                                     (k - 1) * batch_size + Len(batches[k]))
              /\ Len(batches[k]) >= 1
              /\ Len(batches[k]) <= batch_size
              /\ k < Len(batches) => Len(batches[k]) = batch_size
        /\ pr_entries = <<>> => batches = <<>>

\* A list split into full batches and a shorter last one.
C8_Witness ==
    /\ pc = "batch_done"
    /\ Len(batches) = 3
    /\ Len(batches[1]) = batch_size
    /\ Len(batches[3]) < batch_size

----------------------------------------------------------------------------
(* Properties of clean_tags (checked under SpecClean).                     *)

\* C9: clean_tags is idempotent: run on its own output, it reports that no
\* change was necessary (and so leaves the file as it is).
C9_SecondRunChangesNothing == pc = "cleaned_twice" => ~changes_made

----------------------------------------------------------------------------
(* Properties of read_pr_list (checked under SpecTitle).                   *)

RECURSIVE LeadingTagsFrom(_, _)
\* The contents of the bracket groups that stand one after the other from
\* position p on, before the first text outside brackets.
LeadingTagsFrom(s, p) ==
    IF p <= Len(s) /\ s[p] = "[" /\ (\E j \in (p + 1)..Len(s) : s[j] = "]")
    THEN LET j == SetMin({c \in (p + 1)..Len(s) : s[c] = "]"})
         IN  <<SubSeq(s, p + 1, j - 1)>> \o LeadingTagsFrom(s, j + 1)
    ELSE <<>>

LeadingTags(s) == LeadingTagsFrom(s, 1)

RECURSIVE BracketGroupsFrom(_, _)
\* The contents of all the bracket groups from position p on, read from left
\* to right, each closed by the first "]" after its "[".
BracketGroupsFrom(s, p) ==
    IF p > Len(s) THEN <<>>
    ELSE IF LeadingTagsFrom(s, p) = <<>> THEN BracketGroupsFrom(s, p + 1)
    ELSE <<Head(LeadingTagsFrom(s, p))>>
             \o BracketGroupsFrom(s, p + Len(Head(LeadingTagsFrom(s, p))) + 2)

\* "(#", one or more digits and ")" stand at positions k..e of s.
IsRef(s, k, e) ==
    /\ k >= 1 /\ e <= Len(s) /\ e >= k + 3
    /\ s[k] = "(" /\ s[k + 1] = "#" /\ s[e] = ")"
    /\ \A j \in (k + 2)..(e - 1) : s[j] \in Digits

\* Where the references (#<digits>) of s start.
RefPositions(s) == {k \in 1..Len(s) : \E e \in k..Len(s) : IsRef(s, k, e)}

\* The digits of the reference that starts at k.
DigitsOfRef(s, k) == SubSeq(s, k + 2, (CHOOSE e \in k..Len(s) : IsRef(s, k, e)) - 1)

\* The line ends in (#<digits>).
EndsWithRef(s) == \E k \in 1..Len(s) : IsRef(s, k, Len(s))

\* The digits of the last (#<digits>) of the line.
FinalRefDigits(s) == DigitsOfRef(s, SetMax(RefPositions(s)))

\* The two shapes of an input line: leading bracketed tags, text, a final
\* (#<digits>); or text that does not start with a bracket and ends in
\* (#<digits>).
WellFormed(s) ==
    EndsWithRef(s) /\ (LeadingTags(s) # <<>> \/ s[1] # "[")

\* C6 as stated: a well-formed line gives an entry whose number is the digit
\* group of the final (#...) and whose tags are the bracket groups before the
\* first non-bracket text.
C6_TagsAreLeadingGroups ==
    pc = "read_done" =>
        \A i \in 1..Len(input_lines) :
            LET line == Strip(input_lines[i])
            IN  WellFormed(line) =>
                    \E e \in SeqToSet(pr_entries) :
                        /\ e.original_title = line
                        /\ e.number = FinalRefDigits(line)
                        /\ e.tags = LeadingTags(line)

\* C6 as amended: a well-formed line gives an entry whose number is the digit
\* group of the final (#...); its tags are all the bracket groups of the line
\* in order of appearance, those after the first non-bracket text included,
\* when the line starts with a bracket group, and none otherwise.
C6_TagsAreAllGroups ==
    pc = "read_done" =>
        \A i \in 1..Len(input_lines) :
            LET line == Strip(input_lines[i])
            IN  WellFormed(line) =>
                    \E e \in SeqToSet(pr_entries) :
                        /\ e.original_title = line
                        /\ e.number = FinalRefDigits(line)
                        /\ e.tags = IF LeadingTags(line) = <<>> THEN <<>>
                                    ELSE BracketGroupsFrom(line, 1)

\* A well-formed line with a bracket group after its text: the entry holds
\* more tags than the leading ones.
C6_Witness ==
    /\ pc = "read_done"
    /\ Len(input_lines) = 1
    /\ WellFormed(Strip(input_lines[1]))
    /\ Len(pr_entries) = 1
    /\ Len(pr_entries[1].tags) > Len(LeadingTags(Strip(input_lines[1])))
    /\ Len(LeadingTags(Strip(input_lines[1]))) >= 1

RECURSIVE WellFormedLines(_)
\* The stripped lines of one of the two shapes, in order.
WellFormedLines(lines) ==
    IF lines = <<>> THEN <<>>
    ELSE (IF WellFormed(Strip(Head(lines))) THEN <<Strip(Head(lines))>> ELSE <<>>)
             \o WellFormedLines(Tail(lines))

TitlesOf(entries) == [i \in 1..Len(entries) |-> entries[i].original_title]

\* C7 as stated: one entry for each line of one of the two shapes (each
\* ending in (#<digits>)), in input order, and none for any other line.
C7_EntriesAreWellFormedLines ==
    pc = "read_done" => TitlesOf(pr_entries) = WellFormedLines(input_lines)

\* The lines read_pr_list accepts: the line holds a (#<digits>), and if it
\* starts with a bracket group, its last (#<digits>) starts after the first
\* "]".  Nothing need follow or precede the (#<digits>).
Accepted(s) ==
    /\ RefPositions(s) # {}
    /\ LeadingTags(s) # <<>> =>
           SetMax(RefPositions(s)) > SetMin({j \in 1..Len(s) : s[j] = "]"})

RECURSIVE AcceptedLines(_)
\* The stripped lines that are accepted, in order.
AcceptedLines(lines) ==
    IF lines = <<>> THEN <<>>
    ELSE (IF Accepted(Strip(Head(lines))) THEN <<Strip(Head(lines))>> ELSE <<>>)
             \o AcceptedLines(Tail(lines))

\* C7 as amended: one entry for each accepted line, in input order, with the
\* digits of the line's last (#<digits>) as its number, and none for any
\* other line.
C7_EntriesAreAcceptedLines ==
    pc = "read_done" =>
        /\ TitlesOf(pr_entries) = AcceptedLines(input_lines)
        /\ \A i \in 1..Len(pr_entries) :
              pr_entries[i].number = FinalRefDigits(pr_entries[i].original_title)

\* A malformed line, then a line that is accepted although text follows its
\* (#<digits>): one entry, for the second line.
C7_Witness ==
    /\ pc = "read_done"
    /\ Len(input_lines) = 2
    /\ input_lines[1] = MalformedTitle
    /\ ~EndsWithRef(Strip(input_lines[2]))
    /\ Len(pr_entries) = 1
    /\ pr_entries[1].original_title = Strip(input_lines[2])

----------------------------------------------------------------------------
(* Properties of parse_ollama_response (checked under SpecParse).          *)

Spaces(n) == [i \in 1..n |-> " "]

Colons(n) == [i \in 1..n |-> ":"]

\* The line is "## ", the title of k and nothing else but blanks around the
\* marker and the title and colons after the title.
ExactHeaderOf(line, k) ==
    LET slack == Len(line) - 3 - Len(CategoryTitle[k])
    IN  \E a, b, c, d \in 0..slack :
            /\ a + b + c + d <= slack
            /\ line = Spaces(a) \o HeaderMark \o Spaces(b) \o CategoryTitle[k]
                          \o Spaces(c) \o Colons(d) \o Spaces(slack - a - b - c - d)

RECURSIVE CollapseSpaces(_)
\* Every run of blanks made one blank.
CollapseSpaces(s) ==
    IF Len(s) < 2 THEN s
    ELSE IF s[1] = " " /\ s[2] = " " THEN CollapseSpaces(Tail(s))
    ELSE <<s[1]>> \o CollapseSpaces(Tail(s))

\* A text up to letter case and spacing.
Loose(s) == Lower(CollapseSpaces(Strip(s)))

\* The text of a header line: what follows "## ", without trailing colons.
HeaderText(line) == RStripSet(SubSeq(Strip(line), 4, Len(Strip(line))), {":"})

\* The line scanned last is a section header.
HeaderScanned ==
    /\ pc = "scan"
    /\ parse_pos >= 1
    /\ StartsWith(Strip(parse_lines[parse_pos]), HeaderMark)

\* C10 as stated: a header whose text equals a known title up to letter case
\* and spacing activates that title's key.
C10_HeaderMatchesLoosely ==
    HeaderScanned =>
        \A k \in KeySet :
            Loose(HeaderText(parse_lines[parse_pos])) = Loose(CategoryTitle[k])
                => current_category = k

\* C10 as amended: a header activates key k exactly when it is "## " and the
\* title of k, letter for letter, with only blanks around the marker and the
\* title and colons after the title; any other header, a case or inner-spacing
\* variant included, leaves no category active.
C10_HeaderMatchesExactly ==
    HeaderScanned =>
        /\ \A k \in KeySet :
              ExactHeaderOf(parse_lines[parse_pos], k) <=> current_category = k
        /\ (\A k \in KeySet : ~ExactHeaderOf(parse_lines[parse_pos], k))
              => current_category = None

\* A header with blanks and colons around the exact title activates bug_fixes.
C10_Witness ==
    /\ HeaderScanned
    /\ parse_lines[parse_pos] = HeaderMark \o <<" ">> \o BugFixes \o <<" ", ":", ":">>
    /\ current_category = "bug_fixes"

----------------------------------------------------------------------------
(* The pipeline from a response to the rendering, in a run of main         *)
(* (checked under Spec).                                                   *)

\* The lines of the response in hand, stripped.
ResponseLines ==
    LET split == SplitLines(ollama_response)
    IN  [i \in 1..Len(split) |-> Strip(split[i])]

\* Line i lies under a header recognized as key k: the nearest header line
\* above it is the header of k.
UnderKey(lines, i, k) ==
    LET above == {j \in 1..(i - 1) : StartsWith(lines[j], HeaderMark)}
    IN  above # {} /\ ExactHeaderOf(lines[SetMax(above)], k)

\* Where a bullet line "- <text> (#<N>)" divides: the position of the blank
\* before its closing (#<N>).
BulletCut(line) ==
    {c \in 3..Len(line) :
        /\ SubSeq(line, 1, 2) = <<"-", " ">>
        /\ line[c] = " "
        /\ IsRef(line, c + 1, Len(line))}

BulletText(line, c) == SubSeq(line, 3, c - 1)

BulletNumber(line, c) == SubSeq(line, c + 3, Len(line) - 1)

\* The lines of a saved file.
FileLines(file) == SeqToSet(SplitLines(file.text))

PlainBullet(summary, number) ==
    <<"-", " ">> \o summary \o <<" ", "(", "#">> \o number \o <<")", ".">>

\* C4: once main is past the logging of a response, every bullet
\* "- <text> (#<N>)" of the response under a recognized header is stored
\* under the header's key with prNumber N and summary exactly <text>, and
\* the primary output file has the line "- <text> (#<N>).".
C4_SummaryIsBulletText ==
    pc # "log" =>
        LET lines == ResponseLines IN
        \A i \in 1..Len(lines) : \A k \in KeySet :
            \A c \in BulletCut(lines[i]) :
                UnderKey(lines, i, k) =>
                    /\ \E e \in SeqToSet(categories[k]) :
                          /\ e.pr_number = BulletNumber(lines[i], c)
                          /\ e.summary = BulletText(lines[i], c)
                    /\ output_md.exists
                    /\ PlainBullet(BulletText(lines[i], c),
                                   BulletNumber(lines[i], c))
                           \in FileLines(output_md)

----------------------------------------------------------------------------
(* Rendering and extracting (checked under SpecRender).                    *)

\* The prNumber values of the entries of a category map.
MapNumbers(map) ==
    UNION {{map[k][i].pr_number : i \in 1..Len(map[k])} : k \in KeySet}

\* The digit groups of the (#<digits>) inside the summaries of a map.
SummaryRefs(map) ==
    UNION {UNION {{DigitsOfRef(map[k][i].summary, r) :
                       r \in RefPositions(map[k][i].summary)} :
                  i \in 1..Len(map[k])} : k \in KeySet}

\* C5 as stated: the numbers extracted from the primary rendering are exactly
\* the prNumber values of the map.
C5_ExtractedAreMapNumbers ==
    pc = "saved" =>
        extract_pr_numbers_from_release(output_md) = MapNumbers(categories)

\* C5 as amended: the numbers extracted from the primary rendering are the
\* prNumber values of the map together with the digit groups of every
\* (#<digits>) that stands inside a summary; no prNumber of the map is
\* missing.
C5_ExtractedAreMapNumbersAndSummaryRefs ==
    pc = "saved" =>
        extract_pr_numbers_from_release(output_md)
            = MapNumbers(categories) \cup SummaryRefs(categories)

\* A summary that quotes (#9): 9 is extracted although no entry has it.
C5_Witness ==
    /\ pc = "saved"
    /\ <<"9">> \in extract_pr_numbers_from_release(output_md)
    /\ <<"9">> \notin MapNumbers(categories)
    /\ <<"2">> \in MapNumbers(categories)
    /\ <<"2">> \in extract_pr_numbers_from_release(output_md)

----------------------------------------------------------------------------
(* The parser as a two-state machine (checked under SpecParse).            *)

\* The line the next pass of the loop scans, stripped.
NextScanned == Strip(parse_lines[parse_pos + 1])

IsHeaderLine(line) == StartsWith(line, HeaderMark)

IsBulletLine(line) == StartsWith(line, <<"-", " ">>)

\* The blanks of a bullet line, after its "- ", that a (#<digits>) follows.
GrammarCuts(line) ==
    {q \in 3..Len(line) : line[q] = " " /\ \E e \in q..Len(line) : IsRef(line, q + 1, e)}

\* The key whose title the header holds, or None.
KeyOfHeader(line) ==
    IF \E k \in KeySet : ExactHeaderOf(line, k)
    THEN CHOOSE k \in KeySet : ExactHeaderOf(line, k)
    ELSE None

\* The pass appends one entry, numbered `number`, to the list of k and
\* leaves the lists of the other keys as they were.
AppendsOneTo(k, number) ==
    /\ Len(categorized'[k]) = Len(categorized[k]) + 1
    /\ SubSeq(categorized'[k], 1, Len(categorized[k])) = categorized[k]
    /\ categorized'[k][Len(categorized[k]) + 1].pr_number = number
    /\ \A j \in KeySet \ {k} : categorized'[j] = categorized[j]

\* What one pass of the loop may do.
ScanEffect ==
    LET line == NextScanned
    IN  /\ pc' = "scan"
        /\ IsHeaderLine(line) =>
              /\ current_category' = KeyOfHeader(line)
              /\ categorized' = categorized
        /\ (~IsHeaderLine(line) /\ IsBulletLine(line)) =>
              /\ current_category' = current_category
              /\ IF current_category # None /\ GrammarCuts(line) # {}
                 THEN AppendsOneTo(current_category,
                                   DigitsOfRef(line, SetMin(GrammarCuts(line)) + 1))
                 ELSE categorized' = categorized
        /\ (~IsHeaderLine(line) /\ ~IsBulletLine(line)) =>
              /\ current_category' = current_category
              /\ categorized' = categorized

\* C11: each pass of the loop over the response lines does this and no more:
\* a header sets the current category to the key of its title, or to none
\* when the title is unknown, and appends nothing; a bullet is appended, to
\* the current category only, when a category is active and the bullet fits
\* the grammar, and is dropped otherwise, and never changes the current
\* category; any other line changes nothing; the scan goes on to the next
\* line in every case.
C11_ScanIsTwoStateMachine ==
    [][(pc = "scan" /\ parse_pos' = parse_pos + 1) => ScanEffect]_vars

\* A recognized header, an unknown header and a well-formed bullet have been
\* scanned: the bullet was dropped, not given to the first header's category.
C11_Witness ==
    /\ pc = "scan"
    /\ parse_pos = 3
    /\ KeyOfHeader(Strip(parse_lines[1])) = "bug_fixes"
    /\ IsHeaderLine(Strip(parse_lines[2]))
    /\ KeyOfHeader(Strip(parse_lines[2])) = None
    /\ IsBulletLine(Strip(parse_lines[3]))
    /\ GrammarCuts(Strip(parse_lines[3])) # {}
    /\ categorized = EmptyCategories
    /\ current_category = None

----------------------------------------------------------------------------
(* Properties of send_to_ollama (checked under SpecSend).                  *)

\* The first stream line that is an object with a true done flag, or the
\* last line when there is none.
FirstDone(lines) ==
    LET done == {i \in 1..Len(lines) : lines[i].kind = "object" /\ lines[i].done}
    IN  IF done = {} THEN Len(lines) ELSE SetMin(done)

\* The response texts of the lines up to and including that one, in order.
TextUpToDone(lines) ==
    Concat([i \in 1..FirstDone(lines) |->
               IF lines[i].kind = "object" /\ lines[i].response \notin {Absent, NotText}
               THEN lines[i].response ELSE <<>>])

\* A stream of fragments and of lines that are not well-formed JSON, which
\* the connection delivers whole.
StreamDelivered ==
    /\ ~ollama_reply.post_raises
    /\ ollama_reply.status = 200
    /\ \A i \in 1..Len(ollama_reply.lines) :
          /\ ollama_reply.lines[i].kind \in {"object", "blank", "malformed", "undecodable"}
          /\ ollama_reply.lines[i].response # NotText

\* C13: for a success-status stream, send_to_ollama returns the trimmed
\* concatenation of the response values up to and including the first
\* fragment whose done is true and consumes no line after it; a line that is
\* not well-formed JSON is skipped and costs none of the text before or
\* after it.
C13_ReturnsTextUpToDone ==
    (pc = "sent" /\ StreamDelivered) =>
        /\ ollama_response = Strip(TextUpToDone(ollama_reply.lines))
        /\ stream_pos <= FirstDone(ollama_reply.lines)

----------------------------------------------------------------------------
(* A batch without a usable model answer (checked under Spec).             *)

\* The model call failed: the request raised, the status is not 200, or the
\* connection broke before the stream was done.
CallFailed(reply) ==
    \/ reply.post_raises
    \/ reply.status # 200
    \/ \E i \in 1..FirstDone(reply.lines) : reply.lines[i].kind = "broken"

\* What a skipped batch must leave alone, and where main must stand after it.
BatchSkipped ==
    /\ categories' = categories
    /\ output_md' = output_md
    /\ output_url_md' = output_url_md
    /\ log_file' = log_file
    /\ batch_i' = batch_i
    /\ pc' = "loop"

\* C12: a batch whose model call fails or returns no text changes neither
\* the cumulative map nor the two output files nor the log, and main stands
\* at the loop again with the same batch index, ready for the next batch;
\* the model is not called again for that batch, as the call is only ever
\* made for a batch just fetched; a batch with no PR fetched is skipped the
\* same way without any model call.
C12_FailedBatchChangesNothing ==
    [][/\ (pc = "send" /\ pc' # "send"
              /\ (CallFailed(ollama_reply') \/ ollama_response' = <<>>))
             => BatchSkipped
       /\ (pc # "send" /\ pc' = "send")
             => (pc = "loop" /\ batch_i' = batch_i + 1 /\ pr_data_list' # <<>>)
       /\ (pc = "loop" /\ batch_i' = batch_i + 1 /\ pr_data_list' = <<>>)
             => (categories' = categories /\ output_md' = output_md
                   /\ output_url_md' = output_url_md /\ log_file' = log_file
                   /\ ollama_reply' = ollama_reply /\ pc' = "loop")]_vars

\* The model answered the first of two batches with an error status: main
\* stands at the loop, before the second batch, with nothing written.
C12_Witness ==
    /\ pc = "loop"
    /\ Len(batches) = 2
    /\ batch_i = 1
    /\ pr_data_list # <<>>
    /\ ollama_reply.status = 500
    /\ ollama_response = <<>>
    /\ categories = EmptyCategories
    /\ output_url_md = NoFile
    /\ log_file = NoFile

----------------------------------------------------------------------------
(* The cumulative map over the batches (checked under SpecRender).         *)

\* aggregate_markdown is applied to the cumulative map and a parse result.
Aggregates == pc = "aggregate_markdown" /\ pc' = "generate_markdown"

\* The map after the call is rendered and saved.
Renders == pc = "generate_markdown" /\ pc' = "saved"

\* C14: aggregate_markdown makes the cumulative list of each of the eight
\* keys what it was followed by the entries the parse result holds for that
\* key, in their order, duplicates included, and the map has no other key;
\* so after any number of batches each list is the concatenation, in batch
\* order, of the batches' entries.  A parse result with no entry leaves the
\* map as it was, and rendering it then leaves both files as they were.
C14_MapIsConcatenationOfBatches ==
    [][/\ Aggregates =>
             /\ DOMAIN categories' = KeySet
             /\ \A k \in KeySet :
                   /\ Len(categories'[k]) = Len(categories[k]) + Len(categorized[k])
                   /\ \A i \in 1..Len(categories[k]) : categories'[k][i] = categories[k][i]
                   /\ \A i \in 1..Len(categorized[k]) :
                         categories'[k][Len(categories[k]) + i] = categorized[k][i]
             /\ (\A k \in KeySet : categorized[k] = <<>>) => categories' = categories
       /\ (Renders /\ \A k \in KeySet : categorized[k] = <<>>) =>
             /\ output_md.exists => output_md' = output_md
             /\ output_url_md.exists => output_url_md' = output_url_md]_vars

\* Two responses gave an entry for bug_fixes, the second for a PR number that
\* the first already listed: the map holds both, in the order of the calls.
C14_Witness ==
    /\ pc = "saved"
    /\ Len(categorized["bug_fixes"]) = 1
    /\ Len(categories["bug_fixes"]) = 2
    /\ categories["bug_fixes"][1].pr_number = <<"2">>
    /\ categories["bug_fixes"][2] = categorized["bug_fixes"][1]
    /\ categories["bug_fixes"][2].pr_number = <<"2">>
    /\ categories["bug_fixes"][1] # categories["bug_fixes"][2]

====
